---- MODULE Spec2Model ----
(***************************************************************************)
(* Model of src/crawler/index.ts: a PlaywrightCrawler whose request        *)
(* handler skips "/e/" pages, sanitizes the DOM in the page, pushes one    *)
(* record to the Dataset and enqueues the links of the page.               *)
(*                                                                         *)
(* Strings that the code inspects (URLs, attribute names) are sequences of *)
(* tokens, so that includes(), startsWith() and the exclude regular        *)
(* expression are computed and not assumed.                                *)
(***************************************************************************)
EXTENDS Integers, Sequences, FiniteSets, TLC

VARIABLES tasks, sink, handledRequestsCount, record, formatted

vars == <<tasks, sink, handledRequestsCount, record, formatted>>

(***************************************************************************)
(* Bounds of the model.                                                    *)
(***************************************************************************)
\* size of the worker pool (the crawler's concurrency)
MaxConcurrency == 2
\* retries the crawler grants a request whose handler threw
MaxRequestRetries == 1
\* nesting depth of the documents given to the sanitizer, below the body
MaxDepth == 2
\* number of children of the innermost containers of these documents
MaxKids == 2
\* length of the heading and link sequences of the records that are formatted
MaxItems == 2

(***************************************************************************)
(* Program constants.                                                      *)
(***************************************************************************)
\* maxRequestsPerCrawl: 100 in the source; scaled to the size of the site
maxRequestsPerCrawl == 2

NoUrl == <<>>
Null == "null"

(***************************************************************************)
(* URLs, as token sequences  scheme // host / segment / segment ...        *)
(***************************************************************************)
SeedUrl == <<"https:", "/", "/", "qrticket.app", "/", "dashboard">>
EventsUrl == <<"https:", "/", "/", "qrticket.app", "/", "dashboard", "/", "events">>
SettingsUrl == <<"https:", "/", "/", "qrticket.app", "/", "dashboard", "/", "settings">>
TeamUrl == <<"https:", "/", "/", "qrticket.app", "/", "dashboard", "/", "team">>
SeedFragmentUrl == <<"https:", "/", "/", "qrticket.app", "/", "dashboard", "#", "top">>
PublicEventUrl == <<"https:", "/", "/", "qrticket.app", "/", "e", "/", "1">>
NestedEventUrl == <<"https:", "/", "/", "qrticket.app", "/", "dashboard", "/", "e", "/", "1">>
LoginUrl == <<"https:", "/", "/", "accounts.example.com", "/", "login">>

\* String.prototype.includes
Includes(s, sub) ==
    \E k \in 1..(Len(s) - Len(sub) + 1) : SubSeq(s, k, k + Len(sub) - 1) = sub

\* String.prototype.startsWith
StartsWith(s, prefix) ==
    /\ Len(s) >= Len(prefix)
    /\ SubSeq(s, 1, Len(prefix)) = prefix

Hostname(u) == u[4]

\* the crawler's unique key of a request: the URL without its fragment
RECURSIVE StripFragment(_)
StripFragment(u) ==
    IF u = <<>> \/ Head(u) = "#" THEN <<>>
    ELSE <<Head(u)>> \o StripFragment(Tail(u))

UniqueKey(u) == StripFragment(u)

(***************************************************************************)
(* The site that is crawled: where a navigation may land, and the anchors  *)
(* of each page in document order.                                         *)
(***************************************************************************)
RedirectTargets(u) ==
    CASE u = SeedUrl -> {SeedUrl, LoginUrl}
      [] u = EventsUrl -> {EventsUrl, PublicEventUrl}
      [] OTHER -> {u}

LinksOn(u) ==
    CASE u = SeedUrl ->
            <<EventsUrl, SettingsUrl, PublicEventUrl, NestedEventUrl, LoginUrl>>
      [] u = EventsUrl -> <<SeedFragmentUrl, TeamUrl, PublicEventUrl>>
      [] u = SettingsUrl -> <<TeamUrl, SeedUrl>>
      [] OTHER -> <<>>

(***************************************************************************)
(* The DOM.  A node is an element, a text node or a comment.  The contents *)
(* of a template element are not children of the element: they live in a   *)
(* separate fragment (content), which selectors and tree walkers of the    *)
(* document do not reach and which innerHTML serializes.                   *)
(* Attribute names and text are token sequences.                           *)
(***************************************************************************)
El(tag, attrs, kids) ==
    [kind |-> "element", tag |-> tag, attrs |-> attrs, kids |-> kids,
     content |-> <<>>, data |-> <<>>]
Template(attrs, content) ==
    [kind |-> "element", tag |-> "template", attrs |-> attrs, kids |-> <<>>,
     content |-> content, data |-> <<>>]
Text(data) ==
    [kind |-> "text", tag |-> "#text", attrs |-> <<>>, kids |-> <<>>,
     content |-> <<>>, data |-> data]
Comment(data) ==
    [kind |-> "comment", tag |-> "#comment", attrs |-> <<>>, kids |-> <<>>,
     content |-> <<>>, data |-> data]
Attr(name, value) == [name |-> name, value |-> value]

HasAttribute(el, name) == \E k \in DOMAIN el.attrs : el.attrs[k].name = name

\* el.id: the value of the id attribute, "" without one
IdOf(el) ==
    IF HasAttribute(el, <<"id">>)
    THEN (CHOOSE a \in {el.attrs[k] : k \in DOMAIN el.attrs} : a.name = <<"id">>).value
    ELSE ""

\* el.tagName
TagName(el) ==
    CASE el.tag = "div" -> "DIV"
      [] el.tag = "span" -> "SPAN"
      [] el.tag = "p" -> "P"
      [] OTHER -> el.tag

Whitespace == {" ", "\n", "\t"}

RECURSIVE TrimStart(_)
TrimStart(s) ==
    IF s # <<>> /\ Head(s) \in Whitespace THEN TrimStart(Tail(s)) ELSE s

RECURSIVE TrimEnd(_)
TrimEnd(s) ==
    IF s # <<>> /\ s[Len(s)] \in Whitespace
    THEN TrimEnd(SubSeq(s, 1, Len(s) - 1)) ELSE s

\* String.prototype.trim
Trim(s) == TrimEnd(TrimStart(s))

\* node.textContent of a sequence of sibling nodes
RECURSIVE TextContentOf(_)
TextContentOf(nodes) ==
    IF nodes = <<>> THEN <<>>
    ELSE LET n == Head(nodes)
         IN  (CASE n.kind = "text" -> n.data
                [] n.kind = "comment" -> <<>>
                [] OTHER -> TextContentOf(n.kids))
             \o TextContentOf(Tail(nodes))

TextContent(node) == TextContentOf(<<node>>)

\* el.children
RECURSIVE Children(_)
Children(nodes) ==
    IF nodes = <<>> THEN <<>>
    ELSE (IF Head(nodes).kind = "element" THEN <<Head(nodes)>> ELSE <<>>)
         \o Children(Tail(nodes))

\* querySelectorAll("script, style, ...").forEach((el) => el.remove())
NonSemanticTags ==
    {"script", "style", "noscript", "svg", "img", "br", "hr", "canvas",
     "video", "audio", "picture", "source", "next-route-announcer"}

RECURSIVE RemoveNonSemantic(_)
RemoveNonSemantic(nodes) ==
    IF nodes = <<>> THEN <<>>
    ELSE LET n == Head(nodes)
         IN  (IF n.kind = "element" /\ n.tag \in NonSemanticTags THEN <<>>
              ELSE <<[n EXCEPT !.kids = RemoveNonSemantic(n.kids)]>>)
             \o RemoveNonSemantic(Tail(nodes))

\* the tree walker over document.body with SHOW_COMMENT, then removeChild
RECURSIVE RemoveComments(_)
RemoveComments(nodes) ==
    IF nodes = <<>> THEN <<>>
    ELSE LET n == Head(nodes)
         IN  (IF n.kind = "comment" THEN <<>>
              ELSE <<[n EXCEPT !.kids = RemoveComments(n.kids)]>>)
             \o RemoveComments(Tail(nodes))

AttributesToRemove ==
    {<<"class">>, <<"style">>, <<"tabindex">>, <<"aria-", "expanded">>,
     <<"aria-", "selected">>, <<"aria-", "haspopup">>, <<"aria-", "atomic">>,
     <<"aria-", "live">>, <<"aria-", "relevant">>, <<"target">>, <<"rel">>,
     <<"spellcheck">>, <<"draggable">>, <<"contenteditable">>,
     <<"aria-", "label">>}

\* attr.name.startsWith("data-") or a name of attributesToRemove
IsRemovedAttribute(name) ==
    \/ StartsWith(name, <<"data-">>)
    \/ name \in AttributesToRemove

RECURSIVE KeepAttributes(_)
KeepAttributes(attrs) ==
    IF attrs = <<>> THEN <<>>
    ELSE (IF IsRemovedAttribute(Head(attrs).name) THEN <<>> ELSE <<Head(attrs)>>)
         \o KeepAttributes(Tail(attrs))

\* querySelectorAll("*").forEach(...)
RECURSIVE CleanAttributes(_)
CleanAttributes(nodes) ==
    IF nodes = <<>> THEN <<>>
    ELSE LET n == Head(nodes)
         IN  <<[n EXCEPT !.attrs = KeepAttributes(n.attrs),
                         !.kids = CleanAttributes(n.kids)]>>
             \o CleanAttributes(Tail(nodes))

\* div:empty, span:empty, p:empty : no element and no text among the children
MatchesEmpty(n) ==
    /\ n.kind = "element"
    /\ n.tag \in {"div", "span", "p"}
    /\ \A k \in DOMAIN n.kids : n.kids[k].kind = "comment"

\* !el.id && !el.hasAttribute("href") && !el.hasAttribute("type")
NoMeaningfulAttributes(el) ==
    /\ IdOf(el) = ""
    /\ ~HasAttribute(el, <<"href">>)
    /\ ~HasAttribute(el, <<"type">>)

RECURSIVE RemoveEmpty(_)
RemoveEmpty(nodes) ==
    IF nodes = <<>> THEN <<>>
    ELSE LET n == Head(nodes)
         IN  (IF MatchesEmpty(n) /\ NoMeaningfulAttributes(n) THEN <<>>
              ELSE <<[n EXCEPT !.kids = RemoveEmpty(n.kids)]>>)
             \o RemoveEmpty(Tail(nodes))

\* the test of the container pass on one div or span
HasOnlyEmptyChildren(container) ==
    \A k \in DOMAIN Children(container.kids) :
        LET child == Children(container.kids)[k]
        IN  /\ TagName(child) \in {"DIV", "SPAN"}
            /\ Trim(TextContent(child)) = <<>>
            /\ ~HasAttribute(child, <<"href">>)
            /\ ~HasAttribute(child, <<"type">>)

IsCollapsed(n) ==
    /\ n.kind = "element"
    /\ n.tag \in {"div", "span"}
    /\ HasOnlyEmptyChildren(n)
    /\ Trim(TextContent(n)) = <<>>

\* querySelectorAll("div, span") lists a container before its descendants,
\* so each container is tested on its subtree as the earlier passes left it
RECURSIVE CollapseContainers(_)
CollapseContainers(nodes) ==
    IF nodes = <<>> THEN <<>>
    ELSE LET n == Head(nodes)
         IN  (IF IsCollapsed(n) THEN <<>>
              ELSE <<[n EXCEPT !.kids = CollapseContainers(n.kids)]>>)
             \o CollapseContainers(Tail(nodes))

\* elements that innerHTML writes without an end tag
VoidTags == {"img", "input", "br", "hr", "source"}

Token(tok, tag, attrs, data) ==
    [tok |-> tok, tag |-> tag, attrs |-> attrs, data |-> data]

\* innerHTML: the markup of a sequence of sibling nodes, as tokens
RECURSIVE Serialize(_)
Serialize(nodes) ==
    IF nodes = <<>> THEN <<>>
    ELSE LET n == Head(nodes)
         IN  (CASE n.kind = "text" -> <<Token("text", n.tag, <<>>, n.data)>>
                [] n.kind = "comment" -> <<Token("comment", n.tag, <<>>, n.data)>>
                [] OTHER ->
                    <<Token("open", n.tag, n.attrs, <<>>)>>
                    \o (IF n.tag \in VoidTags THEN <<>>
                        ELSE Serialize(IF n.tag = "template" THEN n.content
                                       ELSE n.kids)
                             \o <<Token("close", n.tag, <<>>, <<>>)>>))
             \o Serialize(Tail(nodes))

\* the passes of the page.evaluate callback on the children of the body
Sanitize(nodes) ==
    CollapseContainers(RemoveEmpty(CleanAttributes(RemoveComments(
        RemoveNonSemantic(nodes)))))

\* a task that holds no page, and no result of page.evaluate
NoDocument == [title |-> "", body |-> <<>>]
NoResult == [html |-> <<>>]

\* the documents a page of the site may hold once loaded
\* document.body is an option: <<>> is the null body
\* document.title is the title the page shows at the moment it is read
NullBodyDocument == [title |-> "Dashboard", body |-> <<>>]
PlainDocument ==
    [title |-> "Dashboard", body |-> <<El("body", <<>>,
        <<El("div", <<Attr(<<"class">>, "nav")>>,
            <<El("a", <<Attr(<<"href">>, "/dashboard/events")>>,
                 <<Text(<<"G", "o">>)>>)>>)>>)>>]

\* a page whose scripts set the title once its requests have completed
LoadingDocument == [PlainDocument EXCEPT !.title = "Loading"]

Documents(u) ==
    CASE u = SettingsUrl -> {PlainDocument, NullBodyDocument}
      [] u = LoginUrl -> {PlainDocument, LoadingDocument}
      [] OTHER -> {PlainDocument}

\* the document once the network is idle
Settled(document) ==
    IF document.title = "Loading" THEN [document EXCEPT !.title = "Dashboard"]
    ELSE document

(***************************************************************************)
(* formatForLLM.  The rendering is a sequence of tokens: "\n" and " " are  *)
(* tokens of their own, so that lines and indentation can be counted.      *)
(***************************************************************************)
NL == "\n"

\* a value that an if () of the code takes as true
Truthy(x) == x # Null /\ x # ""

\* String.prototype.repeat
RECURSIVE Repeat(_, _)
Repeat(s, n) == IF n <= 0 THEN <<>> ELSE s \o Repeat(s, n - 1)

\* String.prototype.toUpperCase, on the element types of the model
ToUpperCase(type) ==
    CASE type = "text" -> "TEXT"
      [] type = "email" -> "EMAIL"
      [] type = "submit" -> "SUBMIT"
      [] type = "button" -> "BUTTON"
      [] type = "form" -> "FORM"
      [] OTHER -> type

\* a rendering that indented a heading by its level
HeadingLine_IndentLevel(heading) ==
    Repeat(<<" ", " ">>, heading.level) \o <<"-", " ", heading.text, NL>>

\* `${indent}- ${heading.text}\n` with indent = "  ".repeat(level - 1)
HeadingLine(heading) ==
    Repeat(<<" ", " ">>, heading.level - 1) \o <<"-", " ", heading.text, NL>>

\* a rendering that listed the links without looking at their text
LinkLine_NoFilter(nav) ==
    <<"-", " ", nav.text, ":", " ", nav.href, NL>>

\* if (nav.text) `- ${nav.text}: ${nav.href}\n`
LinkLine(nav) ==
    IF Truthy(nav.text) THEN <<"-", " ", nav.text, ":", " ", nav.href, NL>>
    ELSE <<>>

\* if (element.text) `- **TYPE**: "text"`, ` (ID: id)` with an id, `\n`
InteractiveLine(element) ==
    IF Truthy(element.text)
    THEN <<"-", " ", "**", ToUpperCase(element.type), "**", ":", " ",
           "\"", element.text, "\"">>
         \o (IF Truthy(element.id) THEN <<" ", "(ID: ", element.id, ")">>
             ELSE <<>>)
         \o <<NL>>
    ELSE <<>>

\* `- **TYPE**: "${placeholder ? `"${placeholder}"` : ""} ${text}"\n`
InputLine(inputElement) ==
    <<"-", " ", "**", ToUpperCase(inputElement.type), "**", ":", " ", "\"">>
    \o (IF Truthy(inputElement.placeholder)
        THEN <<"\"", inputElement.placeholder, "\"">> ELSE <<>>)
    \o <<" ", inputElement.text, "\"", NL>>

\* `- **TYPE**: "${text}"\n`, for a button and for a form
TypedLine(element) ==
    <<"-", " ", "**", ToUpperCase(element.type), "**", ":", " ",
      "\"", element.text, "\"", NL>>

\* forEach over the heading, link, ... sequences
RECURSIVE HeadingLines(_)
HeadingLines(hs) ==
    IF hs = <<>> THEN <<>> ELSE HeadingLine(Head(hs)) \o HeadingLines(Tail(hs))
RECURSIVE LinkLines(_)
LinkLines(ls) ==
    IF ls = <<>> THEN <<>> ELSE LinkLine(Head(ls)) \o LinkLines(Tail(ls))
RECURSIVE InteractiveLines(_)
InteractiveLines(es) ==
    IF es = <<>> THEN <<>>
    ELSE InteractiveLine(Head(es)) \o InteractiveLines(Tail(es))
RECURSIVE InputLines(_)
InputLines(es) ==
    IF es = <<>> THEN <<>> ELSE InputLine(Head(es)) \o InputLines(Tail(es))
RECURSIVE TypedLines(_)
TypedLines(es) ==
    IF es = <<>> THEN <<>> ELSE TypedLine(Head(es)) \o TypedLines(Tail(es))

formatForLLM(d) ==
    <<"# ", d.title, NL, NL, "**URL:** ", d.url, NL, NL>>
    \o (IF Len(d.headings) > 0
        THEN <<"## Page Structure", NL, NL>> \o HeadingLines(d.headings) \o <<NL>>
        ELSE <<>>)
    \o (IF Len(d.linkElements) > 0
        THEN <<"## Available Navigation", NL, NL>>
             \o LinkLines(d.linkElements) \o <<NL>>
        ELSE <<>>)
    \o (IF Len(d.interactiveElements) > 0
        THEN <<"## Interactive Elements", NL, NL>>
             \o InteractiveLines(d.interactiveElements) \o <<NL>>
        ELSE <<>>)
    \o (IF Len(d.inputElements) > 0
        THEN <<"## Input Elements", NL, NL>> \o InputLines(d.inputElements)
        ELSE <<>>)
    \o (IF Len(d.buttonElements) > 0
        THEN <<"## Button Elements", NL, NL>> \o TypedLines(d.buttonElements)
        ELSE <<>>)
    \o (IF Len(d.formElements) > 0
        THEN <<"## Form Elements", NL, NL>> \o TypedLines(d.formElements)
        ELSE <<>>)
    \o <<"## Page Content", NL, NL, d.textContent>>

\* the records given to the formatter
PageData(headings, links, inputs, buttons, forms, interactive) ==
    [title |-> "Dashboard", url |-> "https://qrticket.app/dashboard",
     textContent |-> "Welcome", headings |-> headings, linkElements |-> links,
     inputElements |-> inputs, buttonElements |-> buttons,
     formElements |-> forms, interactiveElements |-> interactive]

NoPageData == PageData(<<>>, <<>>, <<>>, <<>>, <<>>, <<>>)
NoOutput == <<>>

SeqsUpTo(choices, n) == UNION {[1..k -> choices] : k \in 0..n}

HeadingChoices ==
    {[level |-> 1, text |-> "Events", id |-> Null],
     [level |-> 2, text |-> "Upcoming", id |-> Null],
     [level |-> 3, text |-> "Past", id |-> Null]}
LinkChoices ==
    {[text |-> "Go", href |-> "/x"], [text |-> "", href |-> "/hidden"]}
InputChoices ==
    {[type |-> "text", text |-> "Name", placeholder |-> Null],
     [type |-> "email", text |-> "", placeholder |-> "you@example.com"]}
InteractiveChoices ==
    {[type |-> "button", text |-> t, id |-> i] :
        t \in {"", "Save"}, i \in {Null, "save"}}

BoundedPageData ==
    {PageData(hs, ls, is, bs, fs, es) :
        hs \in SeqsUpTo(HeadingChoices, MaxItems),
        ls \in SeqsUpTo(LinkChoices, MaxItems),
        is \in SeqsUpTo(InputChoices, 1),
        bs \in SeqsUpTo({[type |-> "submit", text |-> "Save"]}, 1),
        fs \in SeqsUpTo({[type |-> "form", text |-> "Login"]}, 1),
        es \in SeqsUpTo(InteractiveChoices, 1)}

(***************************************************************************)
(* The request handler and its configuration.                              *)
(***************************************************************************)
\* a handler that tested request.url instead of request.loadedUrl
ShouldSkip_RequestUrl(request) ==
    Includes(request.url, <<"/", "e", "/">>)

\* request.loadedUrl && request.loadedUrl.includes("/e/")
ShouldSkip(request) ==
    /\ request.loadedUrl # NoUrl
    /\ Includes(request.loadedUrl, <<"/", "e", "/">>)

\* exclude: [/https:\/\/qrticket\.app\/e\//]
MatchesExclude(u) ==
    Includes(u, <<"https:", "/", "/", "qrticket.app", "/", "e", "/">>)

\* page.evaluate(...): createTreeWalker(document.body, ...) throws on a
\* document without a body
EvaluateThrows(document) == document.body = <<>>

\* the callback mutates the live document of the page
Mutated(document) ==
    [document EXCEPT !.body = <<[document.body[1] EXCEPT
                    !.attrs = KeepAttributes(@), !.kids = Sanitize(@)]>>]

\* const html = document.body.innerHTML; return {html}
Evaluate(document) == [html |-> Serialize(Sanitize(document.body[1].kids))]

NewRequest(u, from) ==
    [url |-> u, discoveredFrom |-> from, uniqueKey |-> UniqueKey(u),
     state |-> "Queued", pc |-> "idle", loadedUrl |-> NoUrl,
     retryCount |-> 0, cookie |-> "none", document |-> NoDocument,
     title |-> Null, pageData |-> NoResult]

\* a queue that compared the URLs as written instead of the unique keys
IsNewRequest_RawUrl(queue, u) ==
    \A k \in DOMAIN queue : queue[k].url # u

\* the request queue keeps one request per unique key
IsNewRequest(queue, u) ==
    \A k \in DOMAIN queue : queue[k].uniqueKey # UniqueKey(u)

\* enqueueLinks({exclude}): the default strategy keeps the links on the
\* hostname of the request, the exclude pattern drops its matches
PassesEnqueueFilter(request, u) ==
    /\ Hostname(u) = Hostname(request.url)
    /\ ~MatchesExclude(u)

RECURSIVE AddRequests(_, _, _, _)
AddRequests(queue, request, from, links) ==
    IF links = <<>> THEN queue
    ELSE LET u == Head(links)
             q == IF PassesEnqueueFilter(request, u) /\ IsNewRequest(queue, u)
                  THEN Append(queue, NewRequest(u, from))
                  ELSE queue
         IN  AddRequests(q, request, from, Tail(links))

InFlight == {i \in DOMAIN tasks : tasks[i].state = "Navigating"}
Terminal == {i \in DOMAIN tasks : tasks[i].state \in {"Extracted", "Skipped", "Failed"}}

\* await crawler.run(["https://qrticket.app/dashboard"])
Init ==
    /\ tasks = <<NewRequest(SeedUrl, 0)>>
    /\ sink = <<>>
    /\ handledRequestsCount = 0
    /\ record = NoPageData
    /\ formatted = NoOutput

\* the pool takes a queued request while the budget is not used up
Fetch(i) ==
    /\ tasks[i].state = "Queued"
    /\ Cardinality(InFlight) < MaxConcurrency
    /\ handledRequestsCount < maxRequestsPerCrawl
    /\ tasks' = [tasks EXCEPT ![i].state = "Navigating", ![i].pc = "hook"]
    /\ UNCHANGED <<sink, handledRequestsCount, record, formatted>>

\* the hook calls addCookies and returns without awaiting it
PreNavigationHook(i) ==
    /\ tasks[i].pc = "hook"
    /\ tasks' = [tasks EXCEPT ![i].cookie = "pending", ![i].pc = "goto"]
    /\ UNCHANGED <<sink, handledRequestsCount, record, formatted>>

\* the browser completes the pending addCookies
AddCookiesSettles(i) ==
    /\ tasks[i].cookie = "pending"
    /\ tasks' = [tasks EXCEPT ![i].cookie = "set"]
    /\ UNCHANGED <<sink, handledRequestsCount, record, formatted>>

\* the crawler starts the navigation once the hooks have returned
GotoStarts(i) ==
    /\ tasks[i].pc = "goto"
    /\ tasks' = [tasks EXCEPT ![i].pc = "navigating"]
    /\ UNCHANGED <<sink, handledRequestsCount, record, formatted>>

\* the navigation lands, possibly after a redirect; the browser has served
\* the addCookies command, sent before the navigation, by then
GotoLoads(i) ==
    /\ tasks[i].pc = "navigating"
    /\ \E loaded \in RedirectTargets(tasks[i].url) :
         \E document \in Documents(loaded) :
            tasks' = [tasks EXCEPT ![i].loadedUrl = loaded,
                                   ![i].cookie = "set",
                                   ![i].document = document,
                                   ![i].pc = "handler"]
    /\ UNCHANGED <<sink, handledRequestsCount, record, formatted>>

\* the handler returns: the request is marked handled
Handled(i, state) ==
    [tasks EXCEPT ![i].state = state, ![i].pc = "idle", ![i].cookie = "none",
                  ![i].document = NoDocument, ![i].title = Null,
                  ![i].pageData = NoResult]

\* a handler that logs the skip and goes on, the return missing
HandlerSkips_NoReturn(i) ==
    /\ tasks[i].pc = "handler"
    /\ ShouldSkip(tasks[i])
    /\ tasks' = [tasks EXCEPT ![i].title = tasks[i].document.title,
                              ![i].pc = "waitForLoadState"]
    /\ UNCHANGED <<sink, handledRequestsCount, record, formatted>>

\* if (request.loadedUrl && request.loadedUrl.includes("/e/")) return
HandlerSkips(i) ==
    /\ tasks[i].pc = "handler"
    /\ ShouldSkip(tasks[i])
    /\ tasks' = Handled(i, "Skipped")
    /\ handledRequestsCount' = handledRequestsCount + 1
    /\ UNCHANGED <<sink, record, formatted>>

\* const title = await page.title()
ReadTitle(i) ==
    /\ tasks[i].pc = "handler"
    /\ ~ShouldSkip(tasks[i])
    /\ tasks' = [tasks EXCEPT ![i].title = tasks[i].document.title,
                              ![i].pc = "waitForLoadState"]
    /\ UNCHANGED <<sink, handledRequestsCount, record, formatted>>

\* await page.waitForLoadState("networkidle")
WaitForLoadState(i) ==
    /\ tasks[i].pc = "waitForLoadState"
    /\ tasks' = [tasks EXCEPT ![i].document = Settled(@),
                              ![i].pc = "evaluate"]
    /\ UNCHANGED <<sink, handledRequestsCount, record, formatted>>

\* const pageData = await page.evaluate(...)
EvaluateInPage(i) ==
    /\ tasks[i].pc = "evaluate"
    /\ ~EvaluateThrows(tasks[i].document)
    /\ tasks' = [tasks EXCEPT ![i].pageData = Evaluate(tasks[i].document),
                              ![i].document = Mutated(@),
                              ![i].pc = "pushData"]
    /\ UNCHANGED <<sink, handledRequestsCount, record, formatted>>

\* await Dataset.pushData({title, url: request.loadedUrl, timestamp, html})
PushData(i) ==
    /\ tasks[i].pc = "pushData"
    /\ sink' = Append(sink, [task |-> i, title |-> tasks[i].title,
                             url |-> tasks[i].loadedUrl,
                             html |-> tasks[i].pageData.html])
    /\ tasks' = [tasks EXCEPT ![i].pc = "enqueueLinks"]
    /\ UNCHANGED <<handledRequestsCount, record, formatted>>

\* await enqueueLinks({exclude: [...]}), then the handler returns
EnqueueLinks(i) ==
    /\ tasks[i].pc = "enqueueLinks"
    /\ tasks' = AddRequests(Handled(i, "Extracted"), tasks[i], i,
                            LinksOn(tasks[i].loadedUrl))
    /\ handledRequestsCount' = handledRequestsCount + 1
    /\ UNCHANGED <<sink, record, formatted>>

\* the places where a page operation of the task may reject
CanThrow(request) ==
    \/ request.pc \in {"navigating", "handler", "waitForLoadState", "enqueueLinks"}
    \/ request.pc = "evaluate" /\ EvaluateThrows(request.document)

\* the crawler catches the error: the request is reclaimed for a retry
Reclaim(i) ==
    /\ CanThrow(tasks[i])
    /\ tasks[i].pc = "handler" => ~ShouldSkip(tasks[i])
    /\ tasks[i].retryCount < MaxRequestRetries
    /\ tasks' = [Handled(i, "Queued") EXCEPT ![i].retryCount = @ + 1,
                                              ![i].loadedUrl = NoUrl]
    /\ UNCHANGED <<sink, handledRequestsCount, record, formatted>>

\* the crawler catches the error of the last attempt: the request failed
Fail(i) ==
    /\ CanThrow(tasks[i])
    /\ tasks[i].pc = "handler" => ~ShouldSkip(tasks[i])
    /\ tasks[i].retryCount >= MaxRequestRetries
    /\ tasks' = Handled(i, "Failed")
    /\ handledRequestsCount' = handledRequestsCount + 1
    /\ UNCHANGED <<sink, record, formatted>>

Next ==
    \E i \in DOMAIN tasks :
        \/ Fetch(i)
        \/ PreNavigationHook(i)
        \/ AddCookiesSettles(i)
        \/ GotoStarts(i)
        \/ GotoLoads(i)
        \/ HandlerSkips(i)
        \/ ReadTitle(i)
        \/ WaitForLoadState(i)
        \/ EvaluateInPage(i)
        \/ PushData(i)
        \/ EnqueueLinks(i)
        \/ Reclaim(i)
        \/ Fail(i)

Spec == Init /\ [][Next]_vars

(***************************************************************************)
(* The sanitizer on its own: a task stands at page.evaluate with a         *)
(* document drawn from the bounded family below, and the handler goes on   *)
(* to push the record.                                                     *)
(***************************************************************************)
LeafNodes ==
    {Text(<<"G", "o">>), Text(<<" ", " ">>), Comment(<<"c">>),
     El("input", <<Attr(<<"type">>, "text")>>, <<>>)}
    \cup {El(t, <<>>, <<>>) :
            t \in {"script", "style", "svg", "img", "canvas", "audio", "video"}}
    \cup {El(t, a, <<>>) :
            t \in {"div", "span", "p"},
            a \in {<<>>, <<Attr(<<"id">>, "main")>>,
                   <<Attr(<<"data-", "x">>, "1")>>}}

KidSeqs(nodes, width) ==
    UNION {[1..n -> nodes] : n \in 1..width}

ContainersOf(kids) ==
    {El("div", <<>>, kids),
     El("div", <<Attr(<<"data-", "x">>, "1"), Attr(<<"class">>, "box")>>, kids),
     El("span", <<>>, kids),
     El("p", <<>>, kids),
     El("a", <<Attr(<<"href">>, "/x")>>, kids),
     Template(<<>>, kids)}

RECURSIVE NodesOfDepth(_)
NodesOfDepth(d) ==
    IF d = 0 THEN LeafNodes
    ELSE LeafNodes \cup
         UNION {ContainersOf(kids) :
                  kids \in KidSeqs(NodesOfDepth(d - 1),
                                   IF d = 1 THEN MaxKids ELSE 1)}

\* <div><span></span><p>  </p><a href="/x">Go</a></div>
ExampleNode ==
    El("div", <<>>,
       <<El("span", <<>>, <<>>),
         El("p", <<>>, <<Text(<<" ", " ">>)>>),
         El("a", <<Attr(<<"href">>, "/x")>>, <<Text(<<"G", "o">>)>>)>>)

BoundedDocuments ==
    {[title |-> "Dashboard", body |-> <<El("body", <<>>, <<n>>)>>] :
        n \in NodesOfDepth(MaxDepth) \cup {ExampleNode}}

SanitizeInit ==
    /\ \E document \in BoundedDocuments :
          tasks = <<[NewRequest(SeedUrl, 0) EXCEPT !.state = "Navigating",
                                                   !.pc = "evaluate",
                                                   !.cookie = "set",
                                                   !.loadedUrl = SeedUrl,
                                                   !.title = document.title,
                                                   !.document = document]>>
    /\ sink = <<>>
    /\ handledRequestsCount = 0
    /\ record = NoPageData
    /\ formatted = NoOutput

SanitizeNext ==
    \E i \in DOMAIN tasks :
        \/ EvaluateInPage(i)
        \/ PushData(i)

SanitizeSpec == SanitizeInit /\ [][SanitizeNext]_vars

(***************************************************************************)
(* The formatter on its own: a record drawn from the bounded family is     *)
(* rendered once.                                                          *)
(***************************************************************************)
FormatInit ==
    /\ tasks = <<>>
    /\ sink = <<>>
    /\ handledRequestsCount = 0
    /\ record \in BoundedPageData
    /\ formatted = NoOutput

FormatForLLM ==
    /\ formatted = NoOutput
    /\ formatted' = formatForLLM(record)
    /\ UNCHANGED <<tasks, sink, handledRequestsCount, record>>

FormatNext == FormatForLLM

FormatSpec == FormatInit /\ [][FormatNext]_vars

(***************************************************************************)
(* Properties of the crawl.                                                *)
(***************************************************************************)
RecordsOf(i) == {k \in DOMAIN sink : sink[k].task = i}

RegistrableDomain(host) ==
    CASE host = "qrticket.app" -> "qrticket.app"
      [] host = "accounts.example.com" -> "example.com"
      [] OTHER -> host

\* C1: no task whose loaded (post-redirect) URL matches the exclusion
\* pattern reaches Extracted, and no record with such a URL is in the sink.
C1_NoExcludedUrlExtracted ==
    /\ \A k \in DOMAIN sink :
          /\ ~Includes(sink[k].url, <<"/", "e", "/">>)
          /\ ~MatchesExclude(sink[k].url)
    /\ \A i \in DOMAIN tasks :
          tasks[i].state = "Extracted" =>
              /\ ~Includes(tasks[i].loadedUrl, <<"/", "e", "/">>)
              /\ ~MatchesExclude(tasks[i].loadedUrl)

\* a task that a redirect took to an excluded URL was skipped, nothing pushed
C1_Witness ==
    \E i \in DOMAIN tasks :
        /\ tasks[i].state = "Skipped"
        /\ tasks[i].loadedUrl # tasks[i].url
        /\ MatchesExclude(tasks[i].loadedUrl)
        /\ RecordsOf(i) = {}

C3_BudgetRespected ==
    Cardinality(Terminal) <= maxRequestsPerCrawl

\* C4: whenever a navigation of a task is under way, the addCookies call
\* of its pre-navigation hook has completed.
C4_CookieSetBeforeNavigation ==
    \A i \in DOMAIN tasks :
        tasks[i].pc = "navigating" => tasks[i].cookie = "set"

\* C5: an Extracted task has pushed exactly one record, and the links of a
\* page are enqueued only after the record of that page was pushed.
C5_OneRecordBeforeLinks ==
    \A i \in DOMAIN tasks :
        /\ tasks[i].state = "Extracted" => Cardinality(RecordsOf(i)) = 1
        /\ \A j \in DOMAIN tasks :
              tasks[j].discoveredFrom = i => RecordsOf(i) # {}

\* C6: a discovered link that the handler's exclusion check would skip is
\* dropped at link discovery and never becomes a task.
C6_ExcludedLinksNeverQueued ==
    \A i \in DOMAIN tasks :
        tasks[i].discoveredFrom # 0 =>
            ~ShouldSkip([loadedUrl |-> tasks[i].url])

\* C7: a task whose handler fails ends in Failed, and the queue is left as
\* if the task had completed without discovering links.
C7_FailureIsolated ==
    [][\A i \in DOMAIN tasks :
          (Reclaim(i) \/ Fail(i)) =>
              /\ tasks' = Handled(i, "Failed")
              /\ sink' = sink]_vars

\* C8: a document without a body makes the task fail for good: no record,
\* no link enqueued, and no further navigation of the task.
C8_NoBodyNotRetried ==
    [][\A i \in DOMAIN tasks :
          (/\ tasks[i].pc = "evaluate"
           /\ EvaluateThrows(tasks[i].document)
           /\ tasks'[i].pc # "evaluate") =>
              /\ tasks'[i].state \in {"Failed", "Skipped"}
              /\ sink' = sink
              /\ Len(tasks') = Len(tasks)]_vars

\* C9: every record of the sink has a URL on the registrable domain of the
\* seed, redirected navigations included.
C9_RecordsOnSeedDomain ==
    \A k \in DOMAIN sink :
        RegistrableDomain(Hostname(sink[k].url)) =
            RegistrableDomain(Hostname(SeedUrl))

\* C10: the markup that sanitization returns for a document with a body
\* holds no comment, no script, style, svg, img, canvas, audio or video
\* element and no attribute whose name starts with "data-", at any depth.
C10_MarkupClean ==
    \A k \in DOMAIN sink :
        \A m \in DOMAIN sink[k].html :
            LET token == sink[k].html[m]
            IN  /\ token.tok # "comment"
                /\ token.tok = "open" =>
                      /\ token.tag \notin {"script", "style", "svg", "img",
                                           "canvas", "audio", "video"}
                      /\ \A a \in DOMAIN token.attrs :
                            ~StartsWith(token.attrs[a].name, <<"data-">>)

\* C18: the title of an emitted record is the title the document has when
\* the record is extracted, after the wait for network idle.
C18_TitleReadAfterIdle ==
    [][\A i \in DOMAIN tasks :
          (tasks[i].pc = "pushData" /\ tasks'[i].pc = "enqueueLinks") =>
              sink'[Len(sink')].title = tasks[i].document.title]_vars

Evaluated(i) == tasks[i].pc = "evaluate" /\ tasks'[i].pc = "pushData"

\* the children of the body as they stand before a pass
BeforeEmptyPass(document) ==
    CleanAttributes(RemoveComments(RemoveNonSemantic(document.body[1].kids)))
BeforeCollapsePass(document) == RemoveEmpty(BeforeEmptyPass(document))

RECURSIVE ElementsOf(_)
ElementsOf(nodes) ==
    IF nodes = <<>> THEN {}
    ELSE (IF Head(nodes).kind = "element"
          THEN {Head(nodes)} \cup ElementsOf(Head(nodes).kids) ELSE {})
         \cup ElementsOf(Tail(nodes))

\* the containers that the collapse pass removes, and the nodes it keeps
RECURSIVE CollapsedNodes(_)
CollapsedNodes(nodes) ==
    IF nodes = <<>> THEN {}
    ELSE (IF IsCollapsed(Head(nodes)) THEN {Head(nodes)}
          ELSE CollapsedNodes(Head(nodes).kids))
         \cup CollapsedNodes(Tail(nodes))

RECURSIVE KeptNodes(_)
KeptNodes(nodes) ==
    IF nodes = <<>> THEN {}
    ELSE (IF IsCollapsed(Head(nodes)) THEN {}
          ELSE {Head(nodes)} \cup KeptNodes(Head(nodes).kids))
         \cup KeptNodes(Tail(nodes))

\* nothing but div, span and p without href or type, and blank text
RECURSIVE OnlyEmptyContainers(_)
OnlyEmptyContainers(nodes) ==
    \A k \in DOMAIN nodes :
        LET n == nodes[k]
        IN  \/ n.kind = "text" /\ Trim(n.data) = <<>>
            \/ /\ n.kind = "element"
               /\ n.tag \in {"div", "span", "p"}
               /\ ~HasAttribute(n, <<"href">>)
               /\ ~HasAttribute(n, <<"type">>)
               /\ OnlyEmptyContainers(n.kids)

PlainContainerToken(token) ==
    /\ token.tok = "open"
    /\ token.tag \in {"div", "span", "p"}
    /\ \A a \in DOMAIN token.attrs :
          token.attrs[a].name \notin {<<"id">>, <<"href">>, <<"type">>}

\* <div><a href="/x">Go</a></div>
ExampleMarkup ==
    <<Token("open", "div", <<>>, <<>>),
      Token("open", "a", <<Attr(<<"href">>, "/x")>>, <<>>),
      Token("text", "#text", <<>>, <<"G", "o">>),
      Token("close", "a", <<>>, <<>>),
      Token("close", "div", <<>>, <<>>)>>

\* C11: the returned markup holds no div, span or p without id, href and
\* type that is empty or holds only whitespace, and the example
\* <div><span></span><p>  </p><a href="/x">Go</a></div> yields
\* <div><a href="/x">Go</a></div>.
C11_EmptyLeavesRemoved ==
    [][\A i \in DOMAIN tasks :
          Evaluated(i) =>
              LET html == tasks'[i].pageData.html
              IN  /\ \A m \in DOMAIN html :
                        (PlainContainerToken(html[m]) /\ m + 1 <= Len(html)) =>
                            /\ html[m + 1].tok # "close"
                            /\ ~(/\ html[m + 1].tok = "text"
                                 /\ Trim(html[m + 1].data) = <<>>
                                 /\ m + 2 <= Len(html)
                                 /\ html[m + 2].tok = "close")
                  /\ tasks[i].document.body[1].kids = <<ExampleNode>> =>
                        html = ExampleMarkup]_vars

\* C15: every container that the collapse pass removes holds nothing but
\* empty div, span and p containers: no other element, no href, no type.
C15_CollapseRemovesOnlyEmpty ==
    [][\A i \in DOMAIN tasks :
          Evaluated(i) =>
              \A n \in CollapsedNodes(BeforeCollapsePass(tasks[i].document)) :
                  OnlyEmptyContainers(n.kids)]_vars

\* C16: no div, span or p without id, href, type and text that the
\* empty-leaf pass left childless survives the collapse pass.
C16_EmptiedContainersRemoved ==
    [][\A i \in DOMAIN tasks :
          Evaluated(i) =>
              \A n \in KeptNodes(BeforeCollapsePass(tasks[i].document)) :
                  ~(/\ n.kind = "element"
                    /\ n.tag \in {"div", "span", "p"}
                    /\ n.kids = <<>>
                    /\ NoMeaningfulAttributes(n))]_vars

\* C17: an empty div or span with an id is still in the document after
\* the empty-leaf pass and the collapse pass.
C17_IdKeepsElement ==
    [][\A i \in DOMAIN tasks :
          Evaluated(i) =>
              \A n \in ElementsOf(BeforeEmptyPass(tasks[i].document)) :
                  (/\ n.tag \in {"div", "span"}
                   /\ n.kids = <<>>
                   /\ IdOf(n) # "") =>
                      n \in ElementsOf(tasks'[i].document.body[1].kids)]_vars

(***************************************************************************)
(* Properties of the formatter.                                            *)
(***************************************************************************)
SectionHeadings ==
    {"## Page Structure", "## Available Navigation", "## Interactive Elements",
     "## Input Elements", "## Button Elements", "## Form Elements"}

Occurs(token, s) == \E k \in DOMAIN s : s[k] = token

\* C12: each populated section starts with its heading, and exactly one
\* blank line separates a section from the heading that follows it.
C12_OneBlankLineBetweenSections ==
    formatted # NoOutput =>
        /\ Len(record.headings) > 0 => Occurs("## Page Structure", formatted)
        /\ Len(record.linkElements) > 0 =>
              Occurs("## Available Navigation", formatted)
        /\ Len(record.interactiveElements) > 0 =>
              Occurs("## Interactive Elements", formatted)
        /\ Len(record.inputElements) > 0 => Occurs("## Input Elements", formatted)
        /\ Len(record.buttonElements) > 0 => Occurs("## Button Elements", formatted)
        /\ Len(record.formElements) > 0 => Occurs("## Form Elements", formatted)
        /\ \A k \in DOMAIN formatted :
              (/\ formatted[k] \in SectionHeadings \cup {"## Page Content"}
               /\ \E j \in 1..(k - 1) : formatted[j] \in SectionHeadings) =>
                  /\ formatted[k - 1] = NL
                  /\ formatted[k - 2] = NL
                  /\ formatted[k - 3] # NL

\* the rendering of the headings that the claim describes
RECURSIVE ExpectedHeadingLines(_)
ExpectedHeadingLines(hs) ==
    IF hs = <<>> THEN <<>>
    ELSE [k \in 1..(2 * (Head(hs).level - 1)) |-> " "]
         \o <<"-", " ", Head(hs).text, NL>>
         \o ExpectedHeadingLines(Tail(hs))

ExampleHeadings ==
    <<[level |-> 1, text |-> "Events", id |-> Null],
      [level |-> 2, text |-> "Upcoming", id |-> Null]>>

\* C13: a non-empty heading sequence renders as "## Page Structure", a blank
\* line, one line of 2*(level-1) spaces, "- " and the text per heading, and
\* a blank line; the example renders as
\* "## Page Structure\n\n- Events\n  - Upcoming\n\n".
C13_PageStructureRendering ==
    (formatted # NoOutput /\ Len(record.headings) > 0) =>
        /\ Includes(formatted,
                    <<"## Page Structure", NL, NL>>
                    \o ExpectedHeadingLines(record.headings) \o <<NL>>)
        /\ record.headings = ExampleHeadings =>
              Includes(formatted,
                       <<"## Page Structure", NL, NL,
                         "-", " ", "Events", NL,
                         " ", " ", "-", " ", "Upcoming", NL, NL>>)

\* the example headings were rendered
C13_Witness ==
    /\ formatted # NoOutput
    /\ record.headings = ExampleHeadings

\* the lines of the links that have a text, in record order
RECURSIVE ExpectedLinkLines(_)
ExpectedLinkLines(ls) ==
    IF ls = <<>> THEN <<>>
    ELSE (IF Head(ls).text = "" THEN <<>>
          ELSE <<"-", " ", Head(ls).text, ":", " ", Head(ls).href, NL>>)
         \o ExpectedLinkLines(Tail(ls))

HasListedLink(ls) == \E k \in DOMAIN ls : ls[k].text # ""

\* what holds of the links section whenever it is emitted
NavigationListsTextLinks ==
    /\ Len(record.linkElements) > 0 =>
          Includes(formatted,
                   <<"## Available Navigation", NL, NL>>
                   \o ExpectedLinkLines(record.linkElements) \o <<NL>>)
    /\ \A k \in DOMAIN record.linkElements :
          record.linkElements[k].text = "" =>
              ~Occurs(record.linkElements[k].href, formatted)

\* C14 as stated: the section lists exactly the links with a text, and is
\* emitted only when it has at least one link to list.
C14_NavigationOnlyWithListedLink ==
    formatted # NoOutput =>
        /\ NavigationListsTextLinks
        /\ Occurs("## Available Navigation", formatted) <=>
              HasListedLink(record.linkElements)

\* C14 as amended: the section lists exactly the links with a text, and is
\* emitted exactly when the record has at least one link, with or without
\* text.
C14_NavigationRendering ==
    formatted # NoOutput =>
        /\ NavigationListsTextLinks
        /\ Occurs("## Available Navigation", formatted) <=>
              Len(record.linkElements) > 0

\* a link with a text and a link without one were rendered
C14_Witness ==
    /\ formatted # NoOutput
    /\ record.linkElements = <<[text |-> "Go", href |-> "/x"],
                             [text |-> "", href |-> "/hidden"]>>
====
